---- MODULE Spec2Model ----
(***************************************************************************)
(* Sprint-delivery analytics: the Task entity (src/internal/jira/task.py)  *)
(* and the Sprint aggregator (src/internal/jira/sprint.py).                *)
(*                                                                         *)
(* Representation.                                                         *)
(*  - A pandas Timestamp is a number of seconds since the midnight that    *)
(*    starts day 0; a parsed date field is a record [kind, t] with kind    *)
(*    "None" (absent), "NaT" (pandas' not-a-time, what to_datetime with    *)
(*    errors='coerce' gives for unparsable text) or "ts".                  *)
(*  - A sprint boundary is a datetime.date [kind |-> "date", day] or a     *)
(*    datetime [kind |-> "datetime", t].                                   *)
(*  - A float of the source (story points, sums, averages, percentages)  *)
(*    is an exact rational [n, d] in lowest terms with d > 0: arithmetic  *)
(*    is exact, binary rounding error of the source's floats is left out. *)
(*    round(x, 1) rounds to the nearest tenth, an exact tie to the even   *)
(*    tenth (what Python does when the float is exactly the tie).         *)
(*  - A Task object is identified by its position in Sprint.tasks: the     *)
(*    source's lists of Task references are sequences of positions.        *)
(*  - Task.labels is the Labels cell as Task.__init__ stores it: a record  *)
(*    [kind, s], a missing cell (NaN) or the text s.  Task defines no      *)
(*    HasLabel; a call of task.HasLabel is an attribute lookup that fails. *)
(*  - Story points are finite numbers: the texts 'nan' and 'inf', which    *)
(*    float() accepts, are outside the rows the model draws.               *)
(*  - A table (DataFrame) is the sequence of its rows, the empty frame     *)
(*    is <<>>; a raised exception is recorded by its class name in ret.    *)
(***************************************************************************)
EXTENDS Integers, Sequences, FiniteSets, TLC

VARIABLES
    tasks,                      \* Sprint.tasks: sequence of Task records
    start_date,                 \* Sprint.start_date
    end_date,                   \* Sprint.end_date
    closed_tasks_cache,         \* Sprint._closed_tasks
    originally_planned_cache,   \* Sprint._originally_planned_tasks
    platform_metrics_cache,     \* Sprint._platform_metrics
    nat_date_cmp_raises,        \* the installed pandas: does NaT <= datetime.date raise?
    computations,               \* history: how often each cached computation completed
    ret,                        \* the last call and what it returned
    readers                     \* where each concurrent reader is inside a cached query

vars == <<tasks, start_date, end_date, closed_tasks_cache, originally_planned_cache,
          platform_metrics_cache, nat_date_cmp_raises, computations, ret, readers>>

(***************************************************************************)
(* Bounds of the model and constants of the program.                       *)
(***************************************************************************)
\* days 0..MaxDay carry the timestamps of the Task-level specification
MaxDay == 2
\* longest task list of the aggregator specifications
MaxTasks == 2
\* the history counters stop counting here
MaxComputations == 3
\* the length in days of the sprint of the aggregator specifications
SprintDays == 5
\* concurrent readers of one aggregator
MaxReaders == 2
\* timedelta(days=1) in seconds
SecondsPerDay == 86400

(***************************************************************************)
(* Floats as exact rationals.                                              *)
(***************************************************************************)
Abs(x) == IF x < 0 THEN -x ELSE x

RECURSIVE GCD(_, _)
GCD(a, b) == IF b = 0 THEN a ELSE GCD(b, a % b)

\* the float n/d: lowest terms, positive denominator
Float(n, d) ==
    LET g == GCD(Abs(n), Abs(d))
        sgn == IF d < 0 THEN -1 ELSE 1
    IN  [n |-> sgn * (n \div g), d |-> sgn * (d \div g)]

Zero == Float(0, 1)
Hundred == Float(100, 1)
\* a number of story points given in hundredths of a point
Hundredths(h) == Float(h, 100)

FAdd(x, y) == Float(x.n * y.d + y.n * x.d, x.d * y.d)
FSub(x, y) == Float(x.n * y.d - y.n * x.d, x.d * y.d)
FMul(x, y) == Float(x.n * y.n, x.d * y.d)
\* x / y for y # 0
FDiv(x, y) == Float(x.n * y.d, x.d * y.n)
FLe(x, y) == x.n * y.d <= y.n * x.d
FLt(x, y) == x.n * y.d < y.n * x.d

\* the number left as it is
unrounded(x) == x

\* round(x, 1)
round1(x) ==
    LET q == (10 * x.n) \div x.d
        r == 10 * x.n - q * x.d
    IN  IF 2 * r < x.d THEN Float(q, 10)
        ELSE IF 2 * r > x.d THEN Float(q + 1, 10)
        ELSE IF q % 2 = 0 THEN Float(q, 10) ELSE Float(q + 1, 10)

(***************************************************************************)
(* Dates and timestamps.                                                   *)
(***************************************************************************)
NoneDate == [kind |-> "None", t |-> 0]
NaT == [kind |-> "NaT", t |-> 0]
Timestamp(t) == [kind |-> "ts", t |-> t]
DateOf(d) == [kind |-> "date", day |-> d, t |-> 0]
DatetimeOf(t) == [kind |-> "datetime", day |-> 0, t |-> t]

\* the timestamp at hour h, minute m, second s of day d
At(d, h, m, s) == d * SecondsPerDay + h * 3600 + m * 60 + s

\* pd.to_datetime of a date (midnight of that day) or of a datetime
to_datetime(x) == IF x.kind = "date" THEN x.day * SecondsPerDay ELSE x.t

\* Timestamp.date(): the calendar day, time-of-day dropped
date(t) == t \div SecondsPerDay

\* Task._parse_date on a raw cell: missing (NaN/None) or '' gives None, text that
\* neither format parses gives NaT (errors='coerce'), a parsable value its timestamp
_parse_date(date_value) ==
    IF date_value.kind \in {"nan", "empty"} THEN NoneDate
    ELSE IF date_value.kind = "bad" THEN NaT
    ELSE Timestamp(date_value.t)

\* Task._parse_story_points on a raw cell: NaN gives 0.0, text float() rejects
\* gives 0.0, anything float() accepts is kept as it is (negative values too)
_parse_story_points(value) ==
    IF value.kind = "nan" THEN Zero
    ELSE IF value.kind = "text" THEN Zero
    ELSE value.v

\* Task.__init__: one Task from one row
Task(row_data) ==
    [ issue_type      |-> row_data.Issue_Type,
      status_category |-> row_data.Status_Category,
      platform        |-> row_data.Platform,
      assignee        |-> row_data.Assignee,
      labels          |-> row_data.Labels,
      story_points    |-> _parse_story_points(row_data.Story_Points),
      created_date    |-> _parse_date(row_data.Created),
      closure_date    |-> _parse_date(row_data.Status_Category_Changed) ]

\* the Labels cell: missing (NaN, what read_csv gives for an empty cell) or a text;
\* Task keeps the cell as it is
NanLabels == [kind |-> "nan", s |-> ""]
LabelsText(s) == [kind |-> "text", s |-> s]
NoLabels == LabelsText("")

\* the methods class Task defines
TaskMethods ==
    { "__init__", "_parse_story_points", "_parse_date", "IsClosed", "IsOriginallyPlanned",
      "GetPlatform", "GetStoryPoints", "GetIssueType", "GetAssignee", "GetLabels",
      "__str__", "__repr__" }

\* what evaluating task.<name> raises: AttributeError for a name Task does not
\* define, nothing ("") for one it defines
LookupError(name) == IF name \in TaskMethods THEN "" ELSE "AttributeError"

(***************************************************************************)
(* Task predicates.                                                        *)
(***************************************************************************)
\* IsClosed with the end boundary left at 00:00:00 of the end date
IsClosedEndAtMidnight(task, sprint_start_date, sprint_end_date) ==
    /\ task.status_category = "Done"
    /\ task.closure_date.kind = "ts"
    /\ to_datetime(sprint_start_date) <= task.closure_date.t
    /\ task.closure_date.t <= to_datetime(sprint_end_date)

\* IsClosed with the whole next day added to the end boundary
IsClosedThroughNextMidnight(task, sprint_start_date, sprint_end_date) ==
    /\ task.status_category = "Done"
    /\ task.closure_date.kind = "ts"
    /\ to_datetime(sprint_start_date) <= task.closure_date.t
    /\ task.closure_date.t <= to_datetime(sprint_end_date) + SecondsPerDay

\* IsClosed with the end date taken as the first instant no longer in the sprint
IsClosedEndExclusive(task, sprint_start_date, sprint_end_date) ==
    /\ task.status_category = "Done"
    /\ task.closure_date.kind = "ts"
    /\ to_datetime(sprint_start_date) <= task.closure_date.t
    /\ task.closure_date.t < to_datetime(sprint_end_date)

\* IsClosed with the status category not checked
IsClosedAnyStatus(task, sprint_start_date, sprint_end_date) ==
    /\ task.closure_date.kind = "ts"
    /\ to_datetime(sprint_start_date) <= task.closure_date.t
    /\ task.closure_date.t <= to_datetime(sprint_end_date) + SecondsPerDay - 1

\* Task.IsClosed
IsClosed(task, sprint_start_date, sprint_end_date) ==
    IF task.status_category # "Done" THEN FALSE
    ELSE IF task.closure_date.kind = "None" THEN FALSE
    ELSE LET sprint_start == to_datetime(sprint_start_date)
             sprint_end == to_datetime(sprint_end_date) + SecondsPerDay - 1
         IN  \* every comparison with NaT is False
             /\ task.closure_date.kind = "ts"
             /\ sprint_start <= task.closure_date.t
             /\ task.closure_date.t <= sprint_end

\* Task.IsOriginallyPlanned raises TypeError when created_date is NaT and the
\* installed pandas refuses to order NaT against a datetime.date
IsOriginallyPlannedRaises(task, raises) ==
    task.created_date.kind = "NaT" /\ raises

\* IsOriginallyPlanned comparing the instants instead of the calendar dates
IsOriginallyPlannedByInstant(task, sprint_start_date) ==
    /\ task.created_date.kind = "ts"
    /\ task.created_date.t <= to_datetime(sprint_start_date)

\* Task.IsOriginallyPlanned, when it returns
IsOriginallyPlanned(task, sprint_start_date) ==
    IF task.created_date.kind = "None" THEN FALSE
    ELSE LET sprint_start == to_datetime(sprint_start_date)
         IN  /\ task.created_date.kind = "ts"
             /\ date(task.created_date.t) <= date(sprint_start)

(***************************************************************************)
(* Raw rows handed to Task.__init__.                                       *)
(***************************************************************************)
NanCell == [kind |-> "nan", t |-> 0]
EmptyCell == [kind |-> "empty", t |-> 0]
BadDateCell == [kind |-> "bad", t |-> 0]
DateCell(t) == [kind |-> "value", t |-> t]
NanPoints == [kind |-> "nan", v |-> Zero]
TextPoints == [kind |-> "text", v |-> Zero]
\* a numeric cell holding h hundredths of a story point
Points(h) == [kind |-> "num", v |-> Hundredths(h)]

\* the rows with every column drawn from the given set of cells
Rows(types, categories, platforms, assignees, labelsets, points, createds, changeds) ==
    [ Issue_Type : types, Status_Category : categories, Platform : platforms,
      Assignee : assignees, Labels : labelsets, Story_Points : points,
      Created : createds, Status_Category_Changed : changeds ]

\* all sequences over S of length at most n
RECURSIVE SeqsUpTo(_, _)
SeqsUpTo(S, n) ==
    IF n = 0 THEN {<<>>}
    ELSE LET shorter == SeqsUpTo(S, n - 1)
         IN  shorter \cup {Append(q, x) : q \in {p \in shorter : Len(p) = n - 1}, x \in S}

(***************************************************************************)
(* The state after Sprint.__init__.                                        *)
(***************************************************************************)
Unset == [set |-> FALSE, value |-> <<>>]
Cached(v) == [set |-> TRUE, value |-> v]
NoCall == [op |-> "", task |-> 0, platform |-> "", label |-> "", err |-> "", val |-> 0]
Returned(op, v) == [op |-> op, task |-> 0, platform |-> "", label |-> "", err |-> "", val |-> v]
Raised(op, e) == [op |-> op, task |-> 0, platform |-> "", label |-> "", err |-> e, val |-> 0]

\* the threads that may call into one Sprint, and a thread outside every call
Readers == 1..MaxReaders
Idle == [pc |-> "idle", query |-> "", err |-> "", val |-> <<>>]

\* Sprint.__init__ over the given task lists and boundary values
Construct(tasklists, starts, ends, builds) ==
    /\ tasks \in tasklists
    /\ start_date \in starts
    /\ end_date \in ends
    /\ closed_tasks_cache = Unset
    /\ originally_planned_cache = Unset
    /\ platform_metrics_cache = Unset
    /\ nat_date_cmp_raises \in builds
    /\ computations = [closed |-> 0, planned |-> 0, platform |-> 0]
    /\ ret = NoCall
    /\ readers = [r \in Readers |-> Idle]

(***************************************************************************)
(* Task-level specification: one task shown against a sprint window, as    *)
(* debug.py's task summary does.                                           *)
(***************************************************************************)
TaskInstants == {At(d, 0, 0, 0) : d \in 0..MaxDay} \cup {At(d, 23, 59, 59) : d \in 0..MaxDay}
TaskDateCells == {NanCell, EmptyCell, BadDateCell} \cup {DateCell(t) : t \in TaskInstants}
TaskBoundaries == {DateOf(d) : d \in 0..MaxDay} \cup {DatetimeOf(At(d, 23, 59, 59)) : d \in 0..MaxDay}
TaskRows ==
    Rows({"Story"}, {"Done", "In Progress", "done"}, {"Backend"}, {"ann"}, {NoLabels},
         {Points(300)}, TaskDateCells, TaskDateCells)

InitTask == Construct({<<Task(r)>> : r \in TaskRows}, TaskBoundaries, TaskBoundaries, BOOLEAN)

\* task.IsClosed(sprint.start_date, sprint.end_date)
CallIsClosed(i) ==
    /\ ret' = [Returned("IsClosed", IsClosed(tasks[i], start_date, end_date)) EXCEPT !.task = i]
    /\ UNCHANGED <<tasks, start_date, end_date, closed_tasks_cache, originally_planned_cache,
                   platform_metrics_cache, nat_date_cmp_raises, computations, readers>>

\* task.IsOriginallyPlanned(sprint.start_date)
CallIsOriginallyPlanned(i) ==
    /\ ret' = IF IsOriginallyPlannedRaises(tasks[i], nat_date_cmp_raises)
              THEN [Raised("IsOriginallyPlanned", "TypeError") EXCEPT !.task = i]
              ELSE [Returned("IsOriginallyPlanned", IsOriginallyPlanned(tasks[i], start_date))
                       EXCEPT !.task = i]
    /\ UNCHANGED <<tasks, start_date, end_date, closed_tasks_cache, originally_planned_cache,
                   platform_metrics_cache, nat_date_cmp_raises, computations, readers>>

NextTask ==
    \/ \E i \in 1..Len(tasks) : CallIsClosed(i)
    \/ \E i \in 1..Len(tasks) : CallIsOriginallyPlanned(i)

SpecTask == InitTask /\ [][NextTask]_vars

(***************************************************************************)
(* Sprint: derived lists and scalar metrics.  A list of Task references is *)
(* a sequence of positions in the task list ts.                            *)
(***************************************************************************)
\* a program constant: the story points that make a contributor full-time
FullTimeThreshold == 5

Indices(ts) == [i \in 1..Len(ts) |-> i]
\* `x in list`: Task defines no __eq__, so membership compares object identity
In(i, refs) == \E k \in 1..Len(refs) : refs[k] = i

\* sum(task.GetStoryPoints() for task in refs)
RECURSIVE SumStoryPoints(_, _)
SumStoryPoints(ts, refs) ==
    IF refs = <<>> THEN Zero
    ELSE FAdd(SumStoryPoints(ts, SubSeq(refs, 1, Len(refs) - 1)), ts[refs[Len(refs)]].story_points)

\* every task kept, whatever IsClosed says
ClosedListUnfiltered(ts, start, end) == Indices(ts)

\* [task for task in self.tasks if task.IsClosed(self.start_date, self.end_date)]
ClosedList(ts, start, end) ==
    SelectSeq(Indices(ts), LAMBDA i : IsClosed(ts[i], start, end))

\* [task for task in self.tasks if task.IsOriginallyPlanned(self.start_date)]
OriginallyPlannedList(ts, start) ==
    SelectSeq(Indices(ts), LAMBDA i : IsOriginallyPlanned(ts[i], start))

\* the names the model draws platforms from, in the order sorted() gives them
PlatformNames == <<"Backend", "Mobile">>

\* Sprint.GetActivePlatforms: the distinct non-empty platforms, sorted
ActivePlatforms(ts) ==
    LET platforms == {ts[i].platform : i \in {j \in 1..Len(ts) : ts[j].platform # ""}}
    IN  SelectSeq(PlatformNames, LAMBDA name : name \in platforms)

\* Sprint.GetTotalPlannedStoryPoints
TotalPlannedStoryPoints(ts) == SumStoryPoints(ts, Indices(ts))

\* the story points of a set of task values, each value counted once
RECURSIVE SumOverValues(_)
SumOverValues(S) ==
    IF S = {} THEN Zero
    ELSE LET t == CHOOSE x \in S : TRUE IN FAdd(t.story_points, SumOverValues(S \ {t}))

\* the intersection taken over task values instead of over task ids: tasks with
\* the same field values are counted once
OriginallyCompletedByValue(ts, originally_planned, closed_tasks) ==
    SumOverValues({ts[closed_tasks[k]] :
                      k \in {j \in 1..Len(closed_tasks) : In(closed_tasks[j], originally_planned)}})

\* every closed task counted, planned on the first day or not
OriginallyCompletedUnrestricted(ts, originally_planned, closed_tasks) ==
    SumStoryPoints(ts, closed_tasks)

\* Sprint.GetOriginallyCompletedStoryPoints: the closed tasks whose id is among
\* the ids of the originally planned ones
OriginallyCompletedStoryPoints(ts, originally_planned, closed_tasks) ==
    SumStoryPoints(ts, SelectSeq(closed_tasks, LAMBDA i : In(i, originally_planned)))

\* everything counted as dropped where nothing was planned
ScopeDropAllWhenUnplanned(planned, completed) ==
    IF planned = Zero THEN Hundred
    ELSE FMul(FDiv(FSub(planned, completed), planned), Hundred)

\* the completed share instead of the dropped share
ScopeDropCompletedShare(planned, completed) ==
    IF planned = Zero THEN Zero ELSE FMul(FDiv(completed, planned), Hundred)

\* ((planned - completed) / planned) * 100, or 0.0 when planned == 0
\* (Sprint.GetNaiveScopeDrop and Sprint.GetActualScopeDrop)
ScopeDrop(planned, completed) ==
    IF planned = Zero THEN Zero
    ELSE FMul(FDiv(FSub(planned, completed), planned), Hundred)

\* the threshold taken as exclusive: more than 5.0 story points
FullTimeContributorsCountAbove(ts, closed_refs) ==
    LET contributors == {ts[closed_refs[k]].assignee : k \in 1..Len(closed_refs)} \ {""}
        points(c) == SumStoryPoints(ts, SelectSeq(closed_refs, LAMBDA i : ts[i].assignee = c))
    IN  Cardinality({c \in contributors : FLt(Float(FullTimeThreshold, 1), points(c))})

\* Sprint.GetTotalContributors: the distinct non-empty assignees of all tasks
TotalContributors(ts) == Cardinality({ts[i].assignee : i \in 1..Len(ts)} \ {""})

\* the contributors with >= 5.0 story points over the given closed tasks
FullTimeContributorsCount(ts, closed_refs) ==
    LET contributors == {ts[closed_refs[k]].assignee : k \in 1..Len(closed_refs)} \ {""}
        points(c) == SumStoryPoints(ts, SelectSeq(closed_refs, LAMBDA i : ts[i].assignee = c))
    IN  Cardinality({c \in contributors : FLe(Float(FullTimeThreshold, 1), points(c))})

(***************************************************************************)
(* Sprint.GetPlatformMetrics: the table, one row per key of `platforms`.   *)
(***************************************************************************)
\* the keys with the empty platform not skipped
PlatformKeysWithEmpty(ts) ==
    LET first(i) == \A j \in 1..(i - 1) : ts[j].platform # ts[i].platform
        firsts == SelectSeq(Indices(ts), LAMBDA i : first(i))
    IN  [k \in 1..Len(firsts) |-> ts[firsts[k]].platform]

\* the keys of the dict `platforms` in insertion order: each non-empty platform
\* at its first occurrence in the task list
PlatformKeys(ts) ==
    LET first(i) == \A j \in 1..(i - 1) : ts[j].platform # ts[i].platform
        firsts == SelectSeq(Indices(ts), LAMBDA i : ts[i].platform # "" /\ first(i))
    IN  [k \in 1..Len(firsts) |-> ts[firsts[k]].platform]

\* the value itself where the count is zero
AverageOrValue(value, count) == IF count > 0 THEN FDiv(value, Float(count, 1)) ELSE value

\* value / count if count > 0 else 0
Average(value, count) == IF count > 0 THEN FDiv(value, Float(count, 1)) ELSE Zero

\* (planned - completed) / planned * 100 if planned > 0 else 0
GroupScopeDrop(planned, completed) ==
    IF FLt(Zero, planned) THEN FMul(FDiv(FSub(planned, completed), planned), Hundred)
    ELSE Zero

\* every task of the group counted as closed
ClosedAmongAll(group_tasks, closed_tasks) == group_tasks

\* the tasks of a group for which `task in closed_tasks` holds
ClosedAmong(group_tasks, closed_tasks) ==
    SelectSeq(group_tasks, LAMBDA i : In(i, closed_tasks))

\* the metric columns of one row, computed over the tasks of its group
GroupMetrics(ts, group_tasks, closed_tasks, originally_planned_tasks) ==
    LET closed == ClosedAmong(group_tasks, closed_tasks)
        planned == SelectSeq(group_tasks, LAMBDA i : In(i, originally_planned_tasks))
        total_planned_points == SumStoryPoints(ts, group_tasks)
        completed_points == SumStoryPoints(ts, closed)
        completed_items == Len(closed)
        originally_planned_points == SumStoryPoints(ts, planned)
        originally_completed_points ==
            SumStoryPoints(ts, SelectSeq(planned, LAMBDA i : In(i, closed_tasks)))
        full_time_contributors_count == FullTimeContributorsCount(ts, closed)
    IN  [ Completed_Story_Points |-> round1(completed_points),
          Completed_Items |-> completed_items,
          Avg_Story_Points |-> round1(Average(completed_points, completed_items)),
          Contributors |-> full_time_contributors_count,
          Avg_Capacity_Per_Contributor |->
              round1(Average(completed_points, full_time_contributors_count)),
          Total_Planned_Story_Points |-> round1(total_planned_points),
          First_Day_Planned_Story_Points |-> round1(originally_planned_points),
          First_Day_Completed_Story_Points |-> round1(originally_completed_points),
          Naive_Scope_Drop |-> round1(GroupScopeDrop(total_planned_points, completed_points)),
          Actual_Scope_Drop |->
              round1(GroupScopeDrop(originally_planned_points, originally_completed_points)) ]

\* the row appended to platform_data for one platform
PlatformRow(ts, platform, closed_tasks, originally_planned_tasks) ==
    [Platform |-> platform]
        @@ GroupMetrics(ts, SelectSeq(Indices(ts), LAMBDA i : ts[i].platform = platform),
                        closed_tasks, originally_planned_tasks)

\* pd.DataFrame(platform_data)
PlatformMetrics(ts, closed_tasks, originally_planned_tasks) ==
    LET keys == PlatformKeys(ts)
    IN  [k \in 1..Len(keys) |-> PlatformRow(ts, keys[k], closed_tasks, originally_planned_tasks)]

(***************************************************************************)
(* Sprint: the contributor breakdowns and the capacity by type.            *)
(***************************************************************************)
\* the assignee as it is, the empty one too
ContributorOfAssignee(task) == task.assignee

\* the key a task is counted under: its assignee, 'Unassigned' when empty
ContributorOf(task) == IF task.assignee = "" THEN "Unassigned" ELSE task.assignee

\* the keys of the dict `contributors` in insertion order
ContributorKeys(ts, group_tasks) ==
    LET first(k) == \A j \in 1..(k - 1) :
                        ContributorOf(ts[group_tasks[j]]) # ContributorOf(ts[group_tasks[k]])
        firsts == SelectSeq([k \in 1..Len(group_tasks) |-> k], first)
    IN  [k \in 1..Len(firsts) |-> ContributorOf(ts[group_tasks[firsts[k]]])]

\* the row appended to contributor_data for one contributor
ContributorRow(ts, contributor, group_tasks, closed_tasks) ==
    LET mine == SelectSeq(group_tasks, LAMBDA i : ContributorOf(ts[i]) = contributor)
        done == ClosedAmong(mine, closed_tasks)
        completed_points == SumStoryPoints(ts, done)
    IN  [ Contributor |-> contributor,
          Completed_Story_Points |-> round1(completed_points),
          Completed_Items |-> Len(done),
          Total_Items |-> Len(mine),
          Avg_Story_Points |-> round1(Average(completed_points, Len(done))) ]

\* pd.DataFrame(contributor_data), before it is sorted
ContributorData(ts, group_tasks, closed_tasks) ==
    LET keys == ContributorKeys(ts, group_tasks)
    IN  [k \in 1..Len(keys) |-> ContributorRow(ts, keys[k], group_tasks, closed_tasks)]

\* all orders of the rows of a table
RowOrders(table) ==
    LET n == Len(table)
        orders == {f \in [1..n -> 1..n] : \A a, b \in 1..n : f[a] = f[b] => a = b}
    IN  {[k \in 1..n |-> table[f[k]]] : f \in orders}

\* the rows left in the order they were appended
sort_values_skipped(table) == {table}

\* contributor_df.sort_values('Completed_Story_Points', ascending=False), when the
\* frame is not empty: the rows in some order in which the column does not
\* increase (the default sort is not stable, rows that tie come in any order)
sort_values(table) ==
    {sorted \in RowOrders(table) :
        \A k \in 1..(Len(sorted) - 1) :
            FLe(sorted[k + 1].Completed_Story_Points, sorted[k].Completed_Story_Points)}

\* the tasks of one platform, in task order
PlatformTasks(ts, platform) == SelectSeq(Indices(ts), LAMBDA i : ts[i].platform = platform)

\* the closed tasks grouped by platform alone, each row under the issue type of
\* the first task of its platform
CapacityByPlatformOnly(ts, closed_tasks) ==
    LET key(i) == ts[i].platform
        first(k) == \A j \in 1..(k - 1) : key(closed_tasks[j]) # key(closed_tasks[k])
        firsts == SelectSeq([k \in 1..Len(closed_tasks) |-> k], first)
        row(k) ==
            LET i == closed_tasks[firsts[k]]
            IN  [ Platform |-> ts[i].platform,
                  Issue_Type |-> ts[i].issue_type,
                  Story_Points |->
                      round1(SumStoryPoints(ts, SelectSeq(closed_tasks,
                                                          LAMBDA j : key(j) = key(i)))) ]
    IN  [k \in 1..Len(firsts) |-> row(k)]

\* Sprint.GetCapacityByType: one row per (platform, issue type) among the closed
\* tasks, in the order the pairs first appear
CapacityByType(ts, closed_tasks) ==
    LET key(i) == <<ts[i].platform, ts[i].issue_type>>
        first(k) == \A j \in 1..(k - 1) : key(closed_tasks[j]) # key(closed_tasks[k])
        firsts == SelectSeq([k \in 1..Len(closed_tasks) |-> k], first)
        row(k) ==
            LET i == closed_tasks[firsts[k]]
            IN  [ Platform |-> ts[i].platform,
                  Issue_Type |-> ts[i].issue_type,
                  Story_Points |->
                      round1(SumStoryPoints(ts, SelectSeq(closed_tasks,
                                                          LAMBDA j : key(j) = key(i)))) ]
    IN  [k \in 1..Len(firsts) |-> row(k)]

(***************************************************************************)
(* Sprint: the memoised lists.                                             *)
(***************************************************************************)
\* the cache tested for truth instead of for None: an empty list is a miss
ClosedCacheTruthy == closed_tasks_cache.set /\ closed_tasks_cache.value # <<>>

\* `self._closed_tasks is None` is false
ClosedCacheHit == closed_tasks_cache.set
\* `self._originally_planned_tasks is None` is false
PlannedCacheHit == originally_planned_cache.set
\* `self._platform_metrics is not None`
PlatformCacheHit == platform_metrics_cache.set

\* what self.GetClosedTasks() returns in the current state
ClosedTasks ==
    IF ClosedCacheHit THEN closed_tasks_cache.value
    ELSE ClosedList(tasks, start_date, end_date)

\* self.GetOriginallyPlannedTasks() raises: it has to compute, and some task's
\* IsOriginallyPlanned raises
PlannedRaises ==
    /\ ~PlannedCacheHit
    /\ \E i \in 1..Len(tasks) : IsOriginallyPlannedRaises(tasks[i], nat_date_cmp_raises)

\* the planned getter reading the field of the closed getter
PlannedFromClosedField ==
    IF ClosedCacheHit THEN closed_tasks_cache.value
    ELSE OriginallyPlannedList(tasks, start_date)

\* what self.GetOriginallyPlannedTasks() returns in the current state
OriginallyPlannedTasks ==
    IF PlannedCacheHit THEN originally_planned_cache.value
    ELSE OriginallyPlannedList(tasks, start_date)

Counted(n, computed) == IF computed /\ n < MaxComputations THEN n + 1 ELSE n

\* the state change of a call that also builds and keeps the platform table
\* whenever it went through both getters
EffectsKeepingTable(usesClosed, usesPlanned, buildsTable) ==
    /\ closed_tasks_cache' =
          IF usesClosed /\ ~ClosedCacheHit THEN Cached(ClosedTasks) ELSE closed_tasks_cache
    /\ originally_planned_cache' =
          IF usesPlanned /\ ~PlannedCacheHit THEN Cached(OriginallyPlannedTasks)
          ELSE originally_planned_cache
    /\ platform_metrics_cache' =
          IF buildsTable \/ (usesClosed /\ usesPlanned)
          THEN Cached(PlatformMetrics(tasks, ClosedTasks, OriginallyPlannedTasks))
          ELSE platform_metrics_cache
    /\ computations' =
          [ closed   |-> Counted(computations.closed, usesClosed /\ ~ClosedCacheHit),
            planned  |-> Counted(computations.planned, usesPlanned /\ ~PlannedCacheHit),
            platform |-> Counted(computations.platform, buildsTable) ]
    /\ UNCHANGED <<tasks, start_date, end_date, nat_date_cmp_raises, readers>>

\* the state change of a call that went through GetClosedTasks (if usesClosed),
\* through GetOriginallyPlannedTasks (if usesPlanned) and built the platform
\* table (if buildsTable)
Effects(usesClosed, usesPlanned, buildsTable) ==
    /\ closed_tasks_cache' =
          IF usesClosed /\ ~ClosedCacheHit THEN Cached(ClosedTasks) ELSE closed_tasks_cache
    /\ originally_planned_cache' =
          IF usesPlanned /\ ~PlannedCacheHit THEN Cached(OriginallyPlannedTasks)
          ELSE originally_planned_cache
    /\ platform_metrics_cache' =
          IF buildsTable
          THEN Cached(PlatformMetrics(tasks, ClosedTasks, OriginallyPlannedTasks))
          ELSE platform_metrics_cache
    /\ computations' =
          [ closed   |-> Counted(computations.closed, usesClosed /\ ~ClosedCacheHit),
            planned  |-> Counted(computations.planned, usesPlanned /\ ~PlannedCacheHit),
            platform |-> Counted(computations.platform, buildsTable) ]
    /\ UNCHANGED <<tasks, start_date, end_date, nat_date_cmp_raises, readers>>

(***************************************************************************)
(* Sprint: the queries.                                                    *)
(***************************************************************************)
GetClosedTasks ==
    /\ ret' = Returned("GetClosedTasks", ClosedTasks)
    /\ Effects(TRUE, FALSE, FALSE)

GetOriginallyPlannedTasks ==
    IF PlannedRaises
    THEN ret' = Raised("GetOriginallyPlannedTasks", "TypeError") /\ Effects(FALSE, FALSE, FALSE)
    ELSE ret' = Returned("GetOriginallyPlannedTasks", OriginallyPlannedTasks)
         /\ Effects(FALSE, TRUE, FALSE)

GetActivePlatforms ==
    /\ ret' = Returned("GetActivePlatforms", ActivePlatforms(tasks))
    /\ Effects(FALSE, FALSE, FALSE)

GetTotalCompletedStoryPoints ==
    /\ ret' = Returned("GetTotalCompletedStoryPoints", SumStoryPoints(tasks, ClosedTasks))
    /\ Effects(TRUE, FALSE, FALSE)

GetTotalPlannedStoryPoints ==
    /\ ret' = Returned("GetTotalPlannedStoryPoints", TotalPlannedStoryPoints(tasks))
    /\ Effects(FALSE, FALSE, FALSE)

GetOriginallyPlannedStoryPoints ==
    IF PlannedRaises
    THEN ret' = Raised("GetOriginallyPlannedStoryPoints", "TypeError")
         /\ Effects(FALSE, FALSE, FALSE)
    ELSE ret' = Returned("GetOriginallyPlannedStoryPoints",
                         SumStoryPoints(tasks, OriginallyPlannedTasks))
         /\ Effects(FALSE, TRUE, FALSE)

\* GetOriginallyPlannedTasks is called first, GetClosedTasks after it
GetOriginallyCompletedStoryPoints ==
    IF PlannedRaises
    THEN ret' = Raised("GetOriginallyCompletedStoryPoints", "TypeError")
         /\ Effects(FALSE, FALSE, FALSE)
    ELSE ret' = Returned("GetOriginallyCompletedStoryPoints",
                         OriginallyCompletedStoryPoints(tasks, OriginallyPlannedTasks, ClosedTasks))
         /\ Effects(TRUE, TRUE, FALSE)

GetCompletedItems ==
    /\ ret' = Returned("GetCompletedItems", Len(ClosedTasks))
    /\ Effects(TRUE, FALSE, FALSE)

GetNaiveScopeDrop ==
    /\ ret' = Returned("GetNaiveScopeDrop",
                       ScopeDrop(TotalPlannedStoryPoints(tasks), SumStoryPoints(tasks, ClosedTasks)))
    /\ Effects(TRUE, FALSE, FALSE)

GetActualScopeDrop ==
    IF PlannedRaises
    THEN ret' = Raised("GetActualScopeDrop", "TypeError") /\ Effects(FALSE, FALSE, FALSE)
    ELSE ret' = Returned("GetActualScopeDrop",
                         ScopeDrop(SumStoryPoints(tasks, OriginallyPlannedTasks),
                                   OriginallyCompletedStoryPoints(tasks, OriginallyPlannedTasks,
                                                                  ClosedTasks)))
         /\ Effects(TRUE, TRUE, FALSE)

\* a cached table is returned as it is; otherwise GetClosedTasks runs, then
\* GetOriginallyPlannedTasks (which may raise), then the table is built and kept
GetPlatformMetrics ==
    IF PlatformCacheHit
    THEN ret' = Returned("GetPlatformMetrics", platform_metrics_cache.value)
         /\ Effects(FALSE, FALSE, FALSE)
    ELSE IF PlannedRaises
    THEN ret' = Raised("GetPlatformMetrics", "TypeError") /\ Effects(TRUE, FALSE, FALSE)
    ELSE ret' = Returned("GetPlatformMetrics",
                         PlatformMetrics(tasks, ClosedTasks, OriginallyPlannedTasks))
         /\ Effects(TRUE, TRUE, TRUE)

GetTotalContributors ==
    /\ ret' = Returned("GetTotalContributors", TotalContributors(tasks))
    /\ Effects(FALSE, FALSE, FALSE)

\* 0.0 when nothing is closed, otherwise the quotient as it is
GetAverageStoryPointsPerItem ==
    /\ ret' = Returned("GetAverageStoryPointsPerItem",
                       LET completed_items == Len(ClosedTasks)
                       IN  IF completed_items = 0 THEN Zero
                           ELSE FDiv(SumStoryPoints(tasks, ClosedTasks),
                                     Float(completed_items, 1)))
    /\ Effects(TRUE, FALSE, FALSE)

GetFullTimeContributorsCount ==
    /\ ret' = Returned("GetFullTimeContributorsCount",
                       FullTimeContributorsCount(tasks, ClosedTasks))
    /\ Effects(TRUE, FALSE, FALSE)

\* 0.0 when nobody is full-time, otherwise the quotient as it is
GetAverageCapacityPerContributor ==
    /\ ret' = Returned("GetAverageCapacityPerContributor",
                       LET full_time_contributors ==
                               FullTimeContributorsCount(tasks, ClosedTasks)
                       IN  IF full_time_contributors = 0 THEN Zero
                           ELSE FDiv(SumStoryPoints(tasks, ClosedTasks),
                                     Float(full_time_contributors, 1)))
    /\ Effects(TRUE, FALSE, FALSE)

\* the record of a call with its arguments
Call(r, platform, label) == [r EXCEPT !.platform = platform, !.label = label]

GetCapacityByType ==
    /\ ret' = Returned("GetCapacityByType", CapacityByType(tasks, ClosedTasks))
    /\ Effects(TRUE, FALSE, FALSE)

\* the loop over the closed tasks evaluates task.HasLabel('vibe-codable') for the
\* first of them; with nothing closed ai_capacity stays 0.0
GetAICapacity ==
    IF ClosedTasks # <<>>
    THEN ret' = Raised("GetAICapacity", LookupError("HasLabel")) /\ Effects(TRUE, FALSE, FALSE)
    ELSE ret' = Returned("GetAICapacity", round1(Zero)) /\ Effects(TRUE, FALSE, FALSE)

\* no task of the platform: an empty frame, nothing else is touched.  Otherwise
\* GetClosedTasks runs, then GetOriginallyPlannedTasks (which may raise); the
\* first loop iterates over each task's labels (a NaN cell is not iterable) and
\* leaves at least one key in `labels`; the second loop evaluates task.HasLabel
\* for the first key
GetPlatformLabelMetrics(platform) ==
    LET platform_tasks == PlatformTasks(tasks, platform)
        op == "GetPlatformLabelMetrics"
    IN  IF platform_tasks = <<>>
        THEN ret' = Call(Returned(op, <<>>), platform, "") /\ Effects(FALSE, FALSE, FALSE)
        ELSE IF PlannedRaises
        THEN ret' = Call(Raised(op, "TypeError"), platform, "") /\ Effects(TRUE, FALSE, FALSE)
        ELSE IF \E k \in 1..Len(platform_tasks) : tasks[platform_tasks[k]].labels = NanLabels
        THEN ret' = Call(Raised(op, "TypeError"), platform, "") /\ Effects(TRUE, TRUE, FALSE)
        ELSE ret' = Call(Raised(op, LookupError("HasLabel")), platform, "")
             /\ Effects(TRUE, TRUE, FALSE)

\* the filter evaluates task.HasLabel(label) for the first task of the platform
GetPlatformLabelContributorBreakdown(platform, label) ==
    LET op == "GetPlatformLabelContributorBreakdown"
    IN  IF PlatformTasks(tasks, platform) = <<>>
        THEN ret' = Call(Returned(op, <<>>), platform, label) /\ Effects(FALSE, FALSE, FALSE)
        ELSE ret' = Call(Raised(op, LookupError("HasLabel")), platform, label)
             /\ Effects(FALSE, FALSE, FALSE)

GetPlatformContributorBreakdown(platform) ==
    LET platform_tasks == PlatformTasks(tasks, platform)
        op == "GetPlatformContributorBreakdown"
    IN  IF platform_tasks = <<>>
        THEN ret' = Call(Returned(op, <<>>), platform, "") /\ Effects(FALSE, FALSE, FALSE)
        ELSE /\ \E contributor_df \in
                    sort_values(ContributorData(tasks, platform_tasks, ClosedTasks)) :
                    ret' = Call(Returned(op, contributor_df), platform, "")
             /\ Effects(TRUE, FALSE, FALSE)

\* the dict GetSummary builds when every entry can be computed; strftime keeps
\* the calendar day of each boundary
SummaryOf(closed_tasks, planned_tasks) ==
    LET total_completed == SumStoryPoints(tasks, closed_tasks)
        full_time_contributors == FullTimeContributorsCount(tasks, closed_tasks)
    IN  [ sprint_period |-> <<date(to_datetime(start_date)), date(to_datetime(end_date))>>,
          total_tasks |-> Len(tasks),
          active_platforms |-> Len(ActivePlatforms(tasks)),
          platforms |-> ActivePlatforms(tasks),
          total_completed |-> total_completed,
          total_planned |-> TotalPlannedStoryPoints(tasks),
          originally_planned |-> SumStoryPoints(tasks, planned_tasks),
          originally_completed |->
              OriginallyCompletedStoryPoints(tasks, planned_tasks, closed_tasks),
          ai_capacity |-> round1(Zero),
          naive_scope_drop |->
              round1(ScopeDrop(TotalPlannedStoryPoints(tasks), total_completed)),
          actual_scope_drop |->
              round1(ScopeDrop(SumStoryPoints(tasks, planned_tasks),
                               OriginallyCompletedStoryPoints(tasks, planned_tasks,
                                                              closed_tasks))),
          completed_items |-> Len(closed_tasks),
          total_contributors |-> TotalContributors(tasks),
          full_time_contributors |-> full_time_contributors,
          avg_capacity_per_contributor |->
              round1(Average(total_completed, full_time_contributors)),
          avg_story_points_per_item |-> round1(Average(total_completed, Len(closed_tasks))) ]

\* the dict over the lists the two getters return in the current state
Summary == SummaryOf(ClosedTasks, OriginallyPlannedTasks)

\* the entries are evaluated in order: 'total_completed' fills the closed cache,
\* 'originally_planned' may raise, 'ai_capacity' raises when a task is closed
GetSummary ==
    IF PlannedRaises
    THEN ret' = Raised("GetSummary", "TypeError") /\ Effects(TRUE, FALSE, FALSE)
    ELSE IF ClosedTasks # <<>>
    THEN ret' = Raised("GetSummary", LookupError("HasLabel")) /\ Effects(TRUE, TRUE, FALSE)
    ELSE ret' = Returned("GetSummary", Summary) /\ Effects(TRUE, TRUE, FALSE)

(***************************************************************************)
(* Aggregator specifications.  The sprint starts on calendar day 1, which  *)
(* is sprint day 1 (debug.py numbers the days of a sprint from 1), and     *)
(* lasts SprintDays days.                                                  *)
(***************************************************************************)
\* the calendar day of sprint day n: (date - sprint.start_date).days + 1 = n
SprintDay(n) == n
SprintStart == DateOf(SprintDay(1))
SprintEnd == DateOf(SprintDay(SprintDays))

TaskLists(rows) == SeqsUpTo({Task(r) : r \in rows}, MaxTasks)

\* scalar metrics: one platform; Done or not, the status category changed at noon
\* of sprint day 2 (inside the sprint, outside a sprint of one day); created before,
\* on and after the start day; negative and positive story points
ScopeRows ==
    Rows({"Story"}, {"Done", "In Progress"}, {"Backend"}, {"ann"}, {NoLabels},
         {Points(-300), Points(300), Points(500)},
         {DateCell(At(SprintDay(0), 9, 0, 0)), DateCell(At(SprintDay(1), 23, 59, 59)),
          DateCell(At(SprintDay(2), 0, 0, 0))},
         {DateCell(At(SprintDay(2), 12, 0, 0))})

InitScope == Construct(TaskLists(ScopeRows), {SprintStart}, {SprintStart, SprintEnd}, {FALSE})

NextScope ==
    \/ \E i \in 1..Len(tasks) : CallIsClosed(i)
    \/ GetClosedTasks
    \/ GetTotalCompletedStoryPoints
    \/ GetTotalPlannedStoryPoints
    \/ GetOriginallyPlannedStoryPoints
    \/ GetOriginallyCompletedStoryPoints
    \/ GetNaiveScopeDrop
    \/ GetActualScopeDrop

SpecScope == InitScope /\ [][NextScope]_vars

(***************************************************************************)
(* Properties of Task.IsClosed and Task.IsOriginallyPlanned (SpecTask).    *)
(***************************************************************************)
\* the task of the last task-level call, and its dates
CalledTask == tasks[ret.task]
\* the first and the last instant of the sprint window as the caller gave it
WindowOpens == IF start_date.kind = "date" THEN At(start_date.day, 0, 0, 0) ELSE start_date.t
WindowCloses ==
    IF end_date.kind = "date" THEN At(end_date.day, 23, 59, 59)
    ELSE end_date.t + 24 * 60 * 60 - 1

\* C1: IsClosed returns true exactly when the status category is "Done", a
\* closure timestamp is present, and sprintStart <= closed_at <= sprintEnd + 1 day
\* - 1 second; a Done item without a usable closure timestamp is never closed.
C1_IsClosedIff ==
    ret.op = "IsClosed" =>
        (ret.val <=> /\ CalledTask.status_category = "Done"
                     /\ CalledTask.closure_date.kind = "ts"
                     /\ WindowOpens <= CalledTask.closure_date.t
                     /\ CalledTask.closure_date.t <= WindowCloses)

\* a Done task closed at the last second of the end date is reported closed
C1_Witness ==
    /\ ret.op = "IsClosed"
    /\ ret.val = TRUE
    /\ end_date.kind = "date"
    /\ CalledTask.closure_date.t = At(end_date.day, 23, 59, 59)

\* C3 as stated: a Done item whose closure timestamp is 00:00 of the end date is
\* closed whatever sprintStart is.
C3_AnyStart ==
    (/\ ret.op = "IsClosed"
     /\ CalledTask.status_category = "Done"
     /\ CalledTask.closure_date.kind = "ts"
     /\ CalledTask.closure_date.t = At(date(to_datetime(end_date)), 0, 0, 0))
    => ret.val = TRUE

\* C3 amended: a Done item whose closure timestamp is 00:00 of the end date is
\* closed provided sprintStart is not later than that instant.
C3_EndDateMidnightIsClosed ==
    (/\ ret.op = "IsClosed"
     /\ CalledTask.status_category = "Done"
     /\ CalledTask.closure_date.kind = "ts"
     /\ CalledTask.closure_date.t = At(date(to_datetime(end_date)), 0, 0, 0)
     /\ WindowOpens <= CalledTask.closure_date.t)
    => ret.val = TRUE

\* a sprint of several days, the task closed at 00:00 of its last day
C3_Witness ==
    /\ ret.op = "IsClosed"
    /\ ret.val = TRUE
    /\ CalledTask.closure_date.t = At(date(to_datetime(end_date)), 0, 0, 0)
    /\ WindowOpens < CalledTask.closure_date.t

\* C4: a closure timestamp one second after the end of the end date (00:00:00 of
\* the next day) is not closed; no instant after sprintEnd 23:59:59 is accepted.
C4_AfterEndOfDayIsOpen ==
    ret.op = "IsClosed" =>
        /\ (CalledTask.closure_date.kind = "ts"
            /\ CalledTask.closure_date.t = WindowCloses + 1) => ret.val = FALSE
        /\ (ret.val = TRUE /\ end_date.kind = "date")
               => CalledTask.closure_date.t <= At(end_date.day, 23, 59, 59)

\* a Done task inside the window but for one second past its end
C4_Witness ==
    /\ ret.op = "IsClosed"
    /\ ret.val = FALSE
    /\ CalledTask.status_category = "Done"
    /\ end_date.kind = "date"
    /\ CalledTask.closure_date.kind = "ts"
    /\ CalledTask.closure_date.t = At(end_date.day + 1, 0, 0, 0)
    /\ WindowOpens <= CalledTask.closure_date.t

\* C5: IsOriginallyPlanned is true exactly when a creation timestamp is present
\* and its calendar date is on or before the calendar date of sprintStart, whatever
\* the time of day.
C5_IsOriginallyPlannedIff ==
    ret.op = "IsOriginallyPlanned" =>
        ((ret.err = "" /\ ret.val = TRUE)
            <=> /\ CalledTask.created_date.kind = "ts"
                /\ \E created_day \in 0..MaxDay, start_day \in 0..MaxDay :
                      /\ At(created_day, 0, 0, 0) <= CalledTask.created_date.t
                      /\ CalledTask.created_date.t <= At(created_day, 23, 59, 59)
                      /\ At(start_day, 0, 0, 0) <= WindowOpens
                      /\ WindowOpens <= At(start_day, 23, 59, 59)
                      /\ created_day <= start_day)

\* created at 23:59:59 of a start date given as a date: originally planned
C5_Witness ==
    /\ ret.op = "IsOriginallyPlanned"
    /\ ret.err = ""
    /\ ret.val = TRUE
    /\ start_date.kind = "date"
    /\ CalledTask.created_date.t = At(start_date.day, 23, 59, 59)

(***************************************************************************)
(* Properties of the scalar metrics (SpecScope).                           *)
(***************************************************************************)
\* the tasks whose status category is "Done", as a task list of their own
DoneTasksOnly == SelectSeq(tasks, LAMBDA t : t.status_category = "Done")

\* C2: an item whose status category is not "Done" is never reported closed, is
\* never in the closed-items list, and adds nothing to the completed points: they
\* are what an aggregator over the Done items alone reports.
C2_NotDoneNeverClosed ==
    /\ (ret.op = "IsClosed" /\ CalledTask.status_category # "Done") => ret.val = FALSE
    /\ closed_tasks_cache.set =>
          \A k \in 1..Len(closed_tasks_cache.value) :
              tasks[closed_tasks_cache.value[k]].status_category = "Done"
    /\ ret.op = "GetTotalCompletedStoryPoints" =>
          ret.val = SumStoryPoints(DoneTasksOnly,
                                   ClosedList(DoneTasksOnly, start_date, end_date))

\* completed points were reported over a list holding a closed Done task and a
\* task that is not Done although its status category changed inside the sprint
C2_Witness ==
    /\ ret.op = "GetTotalCompletedStoryPoints"
    /\ ret.val # Zero
    /\ \E i \in 1..Len(tasks) :
          /\ tasks[i].status_category # "Done"
          /\ tasks[i].closure_date.kind = "ts"
          /\ WindowOpens <= tasks[i].closure_date.t
          /\ tasks[i].closure_date.t <= WindowCloses

\* C6 as stated: OriginallyCompletedPoints() <= OriginallyPlannedPoints() and
\* OriginallyCompletedPoints() <= TotalCompletedPoints(), for every item collection.
C6_OriginallyCompletedIsLeast ==
    ret.op = "GetOriginallyCompletedStoryPoints" =>
        /\ FLe(ret.val, SumStoryPoints(tasks, OriginallyPlannedTasks))
        /\ FLe(ret.val, SumStoryPoints(tasks, ClosedTasks))

\* the two Backend items of the scenario of C7
ScenarioA ==
    Task([ Issue_Type |-> "Story", Status_Category |-> "Done", Platform |-> "Backend",
           Assignee |-> "ann", Labels |-> NoLabels, Story_Points |-> Points(300),
           Created |-> DateCell(At(SprintDay(0), 9, 0, 0)),
           Status_Category_Changed |-> DateCell(At(SprintDay(2), 12, 0, 0)) ])
ScenarioB ==
    Task([ Issue_Type |-> "Story", Status_Category |-> "In Progress", Platform |-> "Backend",
           Assignee |-> "ann", Labels |-> NoLabels, Story_Points |-> Points(500),
           Created |-> DateCell(At(SprintDay(1), 23, 59, 59)),
           Status_Category_Changed |-> DateCell(At(SprintDay(2), 12, 0, 0)) ])
InScenario ==
    /\ tasks = <<ScenarioA, ScenarioB>>
    /\ start_date = SprintStart
    /\ end_date = SprintEnd

\* C7: with A (Backend, 3 points, Done, closed on sprint day 2, created on day 0)
\* and B (Backend, 5 points, In Progress, created on day 1) the metrics are: total
\* planned 8, total completed 3, originally planned 8, originally completed 3,
\* naive scope drop 62.5, actual scope drop 62.5.
C7_Scenario ==
    InScenario =>
        /\ ret.op = "GetTotalPlannedStoryPoints" => ret.val = Float(8, 1)
        /\ ret.op = "GetTotalCompletedStoryPoints" => ret.val = Float(3, 1)
        /\ ret.op = "GetOriginallyPlannedStoryPoints" => ret.val = Float(8, 1)
        /\ ret.op = "GetOriginallyCompletedStoryPoints" => ret.val = Float(3, 1)
        /\ ret.op = "GetNaiveScopeDrop" => ret.val = Float(625, 10)
        /\ ret.op = "GetActualScopeDrop" => ret.val = Float(625, 10)

\* the scenario, its actual scope drop just reported
C7_Witness ==
    /\ InScenario
    /\ ret.op = "GetActualScopeDrop"
    /\ ret.val = Float(625, 10)

\* the memoised queries: empty and non-empty results, and a creation date pandas
\* could not parse, under both behaviours of pandas
CacheRows ==
    Rows({"Story"}, {"Done"}, {"", "Backend"}, {"ann"}, {NoLabels}, {Points(300)},
         {BadDateCell, DateCell(At(SprintDay(1), 23, 59, 59)), DateCell(At(SprintDay(2), 0, 0, 0))},
         {NanCell, DateCell(At(SprintDay(2), 12, 0, 0))})

InitCache == Construct(TaskLists(CacheRows), {SprintStart}, {SprintEnd}, BOOLEAN)

NextCache ==
    \/ GetClosedTasks
    \/ GetOriginallyPlannedTasks
    \/ GetPlatformMetrics
    \/ GetCompletedItems
    \/ GetActualScopeDrop

SpecCache == InitCache /\ [][NextCache]_vars

\* the platform table: no platform, one and two platforms; closed or not; whole
\* and quarter story points
PlatformRows ==
    Rows({"Story"}, {"Done", "In Progress"}, {"", "Backend", "Mobile"}, {"ann"}, {NoLabels},
         {Points(25), Points(50), Points(300)},
         {DateCell(At(SprintDay(1), 23, 59, 59))},
         {DateCell(At(SprintDay(2), 12, 0, 0))})

InitPlatform ==
    Construct(TaskLists(PlatformRows), {SprintStart}, {SprintStart, SprintEnd}, {FALSE})

NextPlatform ==
    \/ GetPlatformMetrics
    \/ GetActivePlatforms
    \/ GetTotalCompletedStoryPoints

SpecPlatform == InitPlatform /\ [][NextPlatform]_vars

(***************************************************************************)
(* Properties of the memoised queries (SpecCache).                         *)
(***************************************************************************)
\* C8: the closed list, the originally planned list and the platform table are
\* each computed at most once per aggregator, an empty result included; a cache
\* entry, once set, is never computed again or replaced.
C8_ComputedOnce ==
    /\ [](/\ computations.closed <= 1
          /\ computations.planned <= 1
          /\ computations.platform <= 1)
    /\ [][/\ closed_tasks_cache.set => closed_tasks_cache' = closed_tasks_cache
          /\ originally_planned_cache.set =>
                originally_planned_cache' = originally_planned_cache
          /\ platform_metrics_cache.set => platform_metrics_cache' = platform_metrics_cache]_vars

\* the empty closed list served again after the platform table had computed it
C8_Witness ==
    /\ ret.op = "GetClosedTasks"
    /\ ret.val = <<>>
    /\ tasks # <<>>
    /\ platform_metrics_cache.set
    /\ computations = [closed |-> 1, planned |-> 1, platform |-> 1]

(***************************************************************************)
(* Properties of the platform table (SpecPlatform).                        *)
(***************************************************************************)
NonEmptyPlatforms == {tasks[i].platform : i \in 1..Len(tasks)} \ {""}

\* C9: the platform table has exactly one row per distinct non-empty platform of
\* the items, as many rows as ActivePlatforms() has entries, and no row for the
\* empty platform.
C9_OneRowPerPlatform ==
    (ret.op = "GetPlatformMetrics" /\ ret.err = "") =>
        /\ Len(ret.val) = Cardinality(NonEmptyPlatforms)
        /\ Len(ret.val) = Len(ActivePlatforms(tasks))
        /\ {ret.val[k].Platform : k \in 1..Len(ret.val)} = NonEmptyPlatforms

\* an item of one platform and an item without platform: one row
C9_Witness ==
    /\ ret.op = "GetPlatformMetrics"
    /\ ret.err = ""
    /\ Len(ret.val) = 1
    /\ Cardinality({tasks[i].platform : i \in 1..Len(tasks)}) = 2

RECURSIVE SumCompletedColumn(_)
SumCompletedColumn(table) ==
    IF table = <<>> THEN Zero
    ELSE FAdd(SumCompletedColumn(SubSeq(table, 1, Len(table) - 1)),
              table[Len(table)].Completed_Story_Points)

EveryItemHasPlatform == \A i \in 1..Len(tasks) : tasks[i].platform # ""
\* every story-point value is a multiple of 0.5
HalfPointsOnly == \A i \in 1..Len(tasks) : (2 * tasks[i].story_points.n) % tasks[i].story_points.d = 0

\* C10 as stated: when every item has a platform, the Completed_Story_Points of
\* the rows add up to TotalCompletedPoints().
C10_RowsAddUp ==
    (ret.op = "GetPlatformMetrics" /\ ret.err = "" /\ EveryItemHasPlatform) =>
        SumCompletedColumn(ret.val) = SumStoryPoints(tasks, ClosedTasks)

\* C10 amended: when every item has a platform and every story-point value is a
\* multiple of 0.5, the Completed_Story_Points of the rows add up to
\* TotalCompletedPoints().
C10_RowsAddUpForHalfPoints ==
    (ret.op = "GetPlatformMetrics" /\ ret.err = "" /\ EveryItemHasPlatform /\ HalfPointsOnly) =>
        SumCompletedColumn(ret.val) = SumStoryPoints(tasks, ClosedTasks)

\* two platforms with completed points, and an item that is not closed
C10_Witness ==
    /\ ret.op = "GetPlatformMetrics"
    /\ EveryItemHasPlatform
    /\ HalfPointsOnly
    /\ Len(ret.val) = 2
    /\ \A k \in 1..Len(ret.val) : ret.val[k].Completed_Story_Points # Zero

(***************************************************************************)
(* Contributors: two people and unassigned work; items of 2.5, 4.9 and 5.0 *)
(* story points, Done or not, whose status category changed on sprint day  *)
(* 2 (outside a sprint of one day).                                        *)
(***************************************************************************)
ContributorRows ==
    Rows({"Story"}, {"Done", "In Progress"}, {"Backend"}, {"", "ann", "bob"}, {NoLabels},
         {Points(250), Points(490), Points(500)},
         {DateCell(At(SprintDay(1), 23, 59, 59))},
         {DateCell(At(SprintDay(2), 12, 0, 0))})

InitContributors ==
    Construct(TaskLists(ContributorRows), {SprintStart}, {SprintStart, SprintEnd}, {FALSE})

NextContributors ==
    \/ GetClosedTasks
    \/ GetTotalContributors
    \/ GetFullTimeContributorsCount
    \/ GetAverageCapacityPerContributor

SpecContributors == InitContributors /\ [][NextContributors]_vars

\* the story points of the items of one assignee that are closed in the window
ClosedPointsOf(a) ==
    SumStoryPoints(tasks, SelectSeq(Indices(tasks),
        LAMBDA i : tasks[i].assignee = a /\ IsClosed(tasks[i], start_date, end_date)))

\* the assignees with at least one item closed in the window
ClosedAssignees ==
    {tasks[i].assignee : i \in {j \in 1..Len(tasks) : IsClosed(tasks[j], start_date, end_date)}}

\* C11: GetFullTimeContributorsCount returns the number of distinct non-empty
\* assignees whose story points, summed over the items closed in the window, are
\* at least 5.0: a sum of exactly 5.0 counts, a sum of 4.9 does not, and items
\* that are not closed add nothing.
C11_FullTimeCount ==
    ret.op = "GetFullTimeContributorsCount" =>
        /\ ret.err = ""
        /\ ret.val = Cardinality({a \in ClosedAssignees \ {""} :
                                      ClosedPointsOf(a).n >= 5 * ClosedPointsOf(a).d})

\* one assignee closed exactly 5.0 points, in two items of 2.5 or in one of 5.0,
\* next to work that must not count: 4.9 points of somebody else, unassigned
\* work or an item that is not closed
C11_Witness ==
    /\ ret.op = "GetFullTimeContributorsCount" /\ ret.val = 1
    /\ \E a \in {"ann", "bob"} : ClosedPointsOf(a) = Float(5, 1)
    /\ \/ \E a \in {"ann", "bob"} : ClosedPointsOf(a) = Hundredths(490)
       \/ \E i \in 1..Len(tasks) : ~IsClosed(tasks[i], start_date, end_date)
                                    /\ tasks[i].story_points = Float(5, 1)
       \/ ClosedPointsOf("") = Float(5, 1)
(***************************************************************************)
(* Labels: two platforms; items without a Labels cell, with an empty one   *)
(* and with the text 'vibe-codable'; Done or not, the status category      *)
(* changed on sprint day 2.                                                *)
(***************************************************************************)
VibeCodable == "vibe-codable"
PlatformArgs == {"Backend", "Mobile"}
LabelArgs == {VibeCodable, "No Label"}

LabelRows ==
    Rows({"Story"}, {"Done", "In Progress"}, {"Backend", "Mobile"}, {"ann"},
         {NanLabels, NoLabels, LabelsText(VibeCodable)}, {Points(300)},
         {DateCell(At(SprintDay(1), 23, 59, 59))},
         {DateCell(At(SprintDay(2), 12, 0, 0))})

InitLabels == Construct(TaskLists(LabelRows), {SprintStart}, {SprintStart, SprintEnd}, {FALSE})

NextLabels ==
    \/ GetClosedTasks
    \/ GetAICapacity
    \/ \E platform \in PlatformArgs : GetPlatformLabelMetrics(platform)
    \/ \E platform \in PlatformArgs, label \in LabelArgs :
           GetPlatformLabelContributorBreakdown(platform, label)

SpecLabels == InitLabels /\ [][NextLabels]_vars

\* the items of the platform the last call was about
ItemsOfCalledPlatform == {i \in 1..Len(tasks) : tasks[i].platform = ret.platform}

\* C12: GetPlatformLabelMetrics(platform) returns an empty table whenever every
\* item of that platform has no labels.
C12_UnlabelledGivesEmptyTable ==
    ( /\ ret.op = "GetPlatformLabelMetrics"
      /\ \A i \in ItemsOfCalledPlatform : tasks[i].labels \in {NanLabels, NoLabels} )
    => ret.err = "" /\ ret.val = <<>>
(***************************************************************************)
(* Every query of the aggregator, over lists of at most MaxTasks items of  *)
(* one platform: Done or not, unlabelled or 'vibe-codable', created on the *)
(* start day or with a Created text no format parses; a sprint of          *)
(* SprintDays days and one of a single day.                                *)
(***************************************************************************)
QueryRows ==
    Rows({"Story"}, {"Done", "In Progress"}, {"Backend"}, {"ann"},
         {NoLabels, LabelsText(VibeCodable)}, {Points(300)},
         {BadDateCell, DateCell(At(SprintDay(1), 23, 59, 59))},
         {DateCell(At(SprintDay(2), 12, 0, 0))})

InitQueries == Construct(TaskLists(QueryRows), {SprintStart}, {SprintStart, SprintEnd}, BOOLEAN)

NextQueries ==
    \/ GetClosedTasks
    \/ GetOriginallyPlannedTasks
    \/ GetActivePlatforms
    \/ GetTotalCompletedStoryPoints
    \/ GetTotalPlannedStoryPoints
    \/ GetOriginallyPlannedStoryPoints
    \/ GetOriginallyCompletedStoryPoints
    \/ GetCompletedItems
    \/ GetTotalContributors
    \/ GetAverageStoryPointsPerItem
    \/ GetAverageCapacityPerContributor
    \/ GetFullTimeContributorsCount
    \/ GetNaiveScopeDrop
    \/ GetActualScopeDrop
    \/ GetPlatformMetrics
    \/ GetCapacityByType
    \/ GetAICapacity
    \/ \E platform \in PlatformArgs : GetPlatformLabelMetrics(platform)
    \/ \E platform \in PlatformArgs : GetPlatformLabelContributorBreakdown(platform, VibeCodable)
    \/ \E platform \in PlatformArgs : GetPlatformContributorBreakdown(platform)
    \/ GetSummary

SpecQueries == InitQueries /\ [][NextQueries]_vars

\* C13: for any constructed item sequence (the empty one included) and any window
\* (a zero-span one included), every query of the aggregator returns a value and
\* none signals failure.
C13_NoQueryFails == ret.op # "" => ret.err = ""
(***************************************************************************)
(* Ratios: items of one platform and one assignee with -1, 0, 1 or 5 story *)
(* points or with a Story_Points cell that is missing or not a number;     *)
(* Done or not, created on the start day or the day after; the status      *)
(* category changed on sprint day 2.                                       *)
(***************************************************************************)
RatioRows ==
    Rows({"Story"}, {"Done", "In Progress"}, {"Backend"}, {"ann"}, {NoLabels},
         {NanPoints, TextPoints, Points(-100), Points(0), Points(100), Points(500)},
         {DateCell(At(SprintDay(1), 23, 59, 59)), DateCell(At(SprintDay(2), 0, 0, 0))},
         {DateCell(At(SprintDay(2), 12, 0, 0))})

InitRatios == Construct(TaskLists(RatioRows), {SprintStart}, {SprintEnd}, {FALSE})

NextRatios ==
    \/ GetAverageStoryPointsPerItem
    \/ GetAverageCapacityPerContributor
    \/ GetNaiveScopeDrop
    \/ GetActualScopeDrop
    \/ GetPlatformMetrics
    \/ \E platform \in PlatformArgs : GetPlatformLabelMetrics(platform)
    \/ \E platform \in PlatformArgs : GetPlatformContributorBreakdown(platform)
    \/ GetSummary

SpecRatios == InitRatios /\ [][NextRatios]_vars

\* the items of a group that are closed in, respectively planned for, the window
ClosedOf(group) == SelectSeq(group, LAMBDA i : IsClosed(tasks[i], start_date, end_date))
PlannedOf(group) == SelectSeq(group, LAMBDA i : IsOriginallyPlanned(tasks[i], start_date))
\* the contributors of a group who closed at least 5.0 story points
FullTimeOf(group) ==
    {a \in {tasks[group[k]].assignee : k \in 1..Len(group)} \ {""} :
        LET points == SumStoryPoints(tasks, SelectSeq(ClosedOf(group),
                                                      LAMBDA i : tasks[i].assignee = a))
        IN  points.n >= 5 * points.d}

\* the four ratios of a table row are 0 where their denominators are
RowRatiosResolve(row, group) ==
    /\ ClosedOf(group) = <<>> => row.Avg_Story_Points = Zero
    /\ FullTimeOf(group) = {} => row.Avg_Capacity_Per_Contributor = Zero
    /\ SumStoryPoints(tasks, group) = Zero => row.Naive_Scope_Drop = Zero
    /\ SumStoryPoints(tasks, PlannedOf(group)) = Zero => row.Actual_Scope_Drop = Zero

\* C14: every ratio whose denominator is zero resolves to 0: the average story
\* points per item without closed items, the average capacity per contributor
\* without full-time contributors, the naive and the actual scope drop without
\* planned points, and the same ratios in each row of the platform table and of
\* the label table.
C14_ZeroDenominatorGivesZero ==
    LET all == Indices(tasks)
    IN  /\ ret.op = "GetAverageStoryPointsPerItem" /\ ClosedOf(all) = <<>>
              => ret.err = "" /\ ret.val = Zero
        /\ ret.op = "GetAverageCapacityPerContributor" /\ FullTimeOf(all) = {}
              => ret.err = "" /\ ret.val = Zero
        /\ ret.op = "GetNaiveScopeDrop" /\ SumStoryPoints(tasks, all) = Zero
              => ret.err = "" /\ ret.val = Zero
        /\ ret.op = "GetActualScopeDrop" /\ SumStoryPoints(tasks, PlannedOf(all)) = Zero
              => ret.err = "" /\ ret.val = Zero
        /\ ret.op = "GetPlatformMetrics" /\ ret.err = ""
              => \A k \in 1..Len(ret.val) :
                     RowRatiosResolve(ret.val[k], PlatformTasks(tasks, ret.val[k].Platform))
        /\ ret.op = "GetPlatformLabelMetrics" /\ ret.err = ""
              => \A k \in 1..Len(ret.val) :
                     /\ ret.val[k].Completed_Items = 0 => ret.val[k].Avg_Story_Points = Zero
                     /\ ret.val[k].Contributors = 0
                            => ret.val[k].Avg_Capacity_Per_Contributor = Zero

\* a platform row over items with points none of which is closed or planned and
\* whose points add up to zero: all four denominators are zero, all four ratios 0
C14_Witness ==
    /\ ret.op = "GetPlatformMetrics" /\ ret.err = "" /\ Len(ret.val) = 1
    /\ LET group == PlatformTasks(tasks, ret.val[1].Platform)
       IN  /\ ClosedOf(group) = <<>> /\ PlannedOf(group) = <<>>
           /\ SumStoryPoints(tasks, group) = Zero
           /\ \E k \in 1..Len(group) : tasks[group[k]].story_points # Zero
    /\ ret.val[1].Avg_Story_Points = Zero
    /\ ret.val[1].Avg_Capacity_Per_Contributor = Zero
    /\ ret.val[1].Naive_Scope_Drop = Zero
    /\ ret.val[1].Actual_Scope_Drop = Zero

\* C15: an aggregator over the empty item sequence returns 0.0 from
\* GetNaiveScopeDrop and from GetActualScopeDrop.
C15_EmptySprintDropsNothing ==
    tasks = <<>> /\ ret.op \in {"GetNaiveScopeDrop", "GetActualScopeDrop"}
        => ret.err = "" /\ ret.val = Zero

\* both scope drops were asked of an empty sprint (the actual one last: it is
\* the one that fills the cache of originally planned items)
C15_Witness ==
    /\ tasks = <<>> /\ ret.op = "GetActualScopeDrop" /\ ret.val = Zero
    /\ originally_planned_cache = Cached(<<>>) /\ closed_tasks_cache = Cached(<<>>)
(***************************************************************************)
(* Contributor breakdowns: two platforms, two people and unassigned work,  *)
(* items of 3 and 5 story points, Done or not.                             *)
(***************************************************************************)
BreakdownRows ==
    Rows({"Story"}, {"Done", "In Progress"}, {"Backend", "Mobile"}, {"", "ann", "bob"},
         {NoLabels}, {Points(300), Points(500)},
         {DateCell(At(SprintDay(1), 23, 59, 59))},
         {DateCell(At(SprintDay(2), 12, 0, 0))})

InitBreakdown == Construct(TaskLists(BreakdownRows), {SprintStart}, {SprintEnd}, {FALSE})

NextBreakdown ==
    \/ GetClosedTasks
    \/ \E platform \in PlatformArgs : GetPlatformContributorBreakdown(platform)
    \/ \E platform \in PlatformArgs, label \in LabelArgs :
           GetPlatformLabelContributorBreakdown(platform, label)

SpecBreakdown == InitBreakdown /\ [][NextBreakdown]_vars

\* the text of the Labels cell names the label (a text that is the label alone
\* does, an empty or missing cell does not)
Carries(task, label) == task.labels = LabelsText(label)

\* C16: GetPlatformContributorBreakdown(platform) and
\* GetPlatformLabelContributorBreakdown(platform, label) return an empty table,
\* without error, whenever no item matches the platform (and label) filter.
C16_EmptyWhenNothingMatches ==
    /\ ret.op = "GetPlatformContributorBreakdown" /\ ItemsOfCalledPlatform = {}
          => ret.err = "" /\ ret.val = <<>>
    /\ ( /\ ret.op = "GetPlatformLabelContributorBreakdown"
         /\ \A i \in ItemsOfCalledPlatform : ~Carries(tasks[i], ret.label) )
          => ret.err = "" /\ ret.val = <<>>

\* C17: the rows of a contributor breakdown, of a platform or of a platform and
\* a label, are ordered by completed story points, non-increasing.
C17_RowsByCompletedPoints ==
    ( /\ ret.op \in {"GetPlatformContributorBreakdown", "GetPlatformLabelContributorBreakdown"}
      /\ ret.err = "" )
    => \A k \in 1..(Len(ret.val) - 1) :
           ret.val[k].Completed_Story_Points.n * ret.val[k + 1].Completed_Story_Points.d
               >= ret.val[k + 1].Completed_Story_Points.n * ret.val[k].Completed_Story_Points.d

\* two contributors, the one met second in the task list has completed more and
\* comes first in the table
C17_Witness ==
    /\ ret.op = "GetPlatformContributorBreakdown" /\ Len(ret.val) = 2
    /\ ret.val[1].Contributor = ContributorOf(tasks[2])
    /\ ret.val[2].Contributor = ContributorOf(tasks[1])
    /\ FLt(ret.val[2].Completed_Story_Points, ret.val[1].Completed_Story_Points)
\* C18: GetAICapacity returns the sum of the story points of the items closed in
\* the window that carry the label 'vibe-codable' (exact, case-sensitive).
C18_AICapacityIsLabelledSum ==
    ret.op = "GetAICapacity" =>
        /\ ret.err = ""
        /\ ret.val = SumStoryPoints(tasks,
                         SelectSeq(Indices(tasks),
                             LAMBDA i : /\ IsClosed(tasks[i], start_date, end_date)
                                        /\ Carries(tasks[i], VibeCodable)))

\* C19: after construction the story points of an item are never negative (and
\* never NaN): invalid input is coerced to 0.0.
C19_StoryPointsNotNegative ==
    \A i \in 1..Len(tasks) : tasks[i].story_points.n >= 0
\* a number with at most one decimal place (numbers are kept in lowest terms)
OneDecimal(x) == 10 % x.d = 0

\* the percentage and average columns of a metrics table are one-decimal numbers
MetricColumnsRounded(table) ==
    \A k \in 1..Len(table) :
        /\ OneDecimal(table[k].Avg_Story_Points)
        /\ OneDecimal(table[k].Avg_Capacity_Per_Contributor)
        /\ OneDecimal(table[k].Naive_Scope_Drop)
        /\ OneDecimal(table[k].Actual_Scope_Drop)

\* what the tables and the summary return is rounded
TablesAndSummaryRounded ==
    /\ ret.op \in {"GetPlatformMetrics", "GetPlatformLabelMetrics"} /\ ret.err = ""
          => MetricColumnsRounded(ret.val)
    /\ ( /\ ret.op \in {"GetPlatformContributorBreakdown",
                        "GetPlatformLabelContributorBreakdown"}
         /\ ret.err = "" )
          => \A k \in 1..Len(ret.val) : OneDecimal(ret.val[k].Avg_Story_Points)
    /\ ret.op = "GetSummary" /\ ret.err = ""
          => /\ OneDecimal(ret.val.naive_scope_drop)
             /\ OneDecimal(ret.val.actual_scope_drop)
             /\ OneDecimal(ret.val.avg_capacity_per_contributor)
             /\ OneDecimal(ret.val.avg_story_points_per_item)

C21_TwinsBothCounted ==
    LET all == Indices(tasks)
    IN  /\ ret.op = "GetOriginallyCompletedStoryPoints" /\ ret.err = ""
              => ret.val = SumStoryPoints(tasks, ClosedOf(PlannedOf(all)))
        /\ ret.op = "GetPlatformMetrics" /\ ret.err = ""
              => \A k \in 1..Len(ret.val) :
                     ret.val[k].First_Day_Completed_Story_Points =
                         round1(SumStoryPoints(tasks,
                             ClosedOf(PlannedOf(PlatformTasks(tasks, ret.val[k].Platform)))))

\* two items with identical fields, both closed and originally planned: 3 + 3
\* points are reported as originally completed
C21_Witness ==
    /\ Len(tasks) = 2 /\ tasks[1] = tasks[2]
    /\ ClosedOf(PlannedOf(Indices(tasks))) = <<1, 2>>
    /\ ret.op = "GetOriginallyCompletedStoryPoints" /\ ret.val = Float(6, 1)
    /\ platform_metrics_cache.set
    /\ platform_metrics_cache.value[1].First_Day_Completed_Story_Points = Float(6, 1)
(***************************************************************************)
(* Concurrent readers.  Sprint takes no lock: a cached query is a test of  *)
(* the cache field, the computation with the assignment of the field, and  *)
(* the read of the field for `return`, and threads interleave between      *)
(* these steps.  The computation of the platform table, with the two       *)
(* cached lists it asks for, is taken as one step.                         *)
(***************************************************************************)
CachedQueries == {"GetClosedTasks", "GetOriginallyPlannedTasks", "GetPlatformMetrics"}

\* the cache field a query tests and returns
CacheOf(query) ==
    IF query = "GetClosedTasks" THEN closed_tasks_cache
    ELSE IF query = "GetOriginallyPlannedTasks" THEN originally_planned_cache
    ELSE platform_metrics_cache

ReaderAt(reader, pc) == readers[reader].pc = pc

\* a thread enters a cached query
ReaderCalls(reader, query) ==
    /\ ReaderAt(reader, "idle")
    /\ readers' = [readers EXCEPT ![reader] = [Idle EXCEPT !.pc = "test", !.query = query]]
    /\ UNCHANGED <<tasks, start_date, end_date, closed_tasks_cache, originally_planned_cache,
                   platform_metrics_cache, nat_date_cmp_raises, computations, ret>>

\* `if self._closed_tasks is None:` and its like
ReaderTests(reader) ==
    /\ ReaderAt(reader, "test")
    /\ readers' = [readers EXCEPT ![reader].pc =
                      IF CacheOf(readers[reader].query).set THEN "return" ELSE "compute"]
    /\ UNCHANGED <<tasks, start_date, end_date, closed_tasks_cache, originally_planned_cache,
                   platform_metrics_cache, nat_date_cmp_raises, computations, ret>>

\* the thread found the field None: it computes and assigns the field, whatever
\* the field holds by now
ReaderComputes(reader) ==
    LET query == readers[reader].query
        raises == /\ query # "GetClosedTasks"
                  /\ PlannedRaises
        closes == query = "GetClosedTasks" \/ (query = "GetPlatformMetrics" /\ ~ClosedCacheHit)
        plans == ~raises /\ \/ query = "GetOriginallyPlannedTasks"
                            \/ query = "GetPlatformMetrics" /\ ~PlannedCacheHit
        builds == ~raises /\ query = "GetPlatformMetrics"
    IN  /\ ReaderAt(reader, "compute")
        /\ closed_tasks_cache' =
              IF closes THEN Cached(ClosedList(tasks, start_date, end_date))
              ELSE closed_tasks_cache
        /\ originally_planned_cache' =
              IF plans THEN Cached(OriginallyPlannedList(tasks, start_date))
              ELSE originally_planned_cache
        /\ platform_metrics_cache' =
              IF builds THEN Cached(PlatformMetrics(tasks, ClosedTasks, OriginallyPlannedTasks))
              ELSE platform_metrics_cache
        /\ computations' = [ closed   |-> Counted(computations.closed, closes),
                             planned  |-> Counted(computations.planned, plans),
                             platform |-> Counted(computations.platform, builds) ]
        /\ readers' = [readers EXCEPT ![reader] =
                          IF raises THEN [@ EXCEPT !.pc = "done", !.err = "TypeError"]
                          ELSE [@ EXCEPT !.pc = "return"]]
        /\ UNCHANGED <<tasks, start_date, end_date, nat_date_cmp_raises, ret>>

\* `return self._closed_tasks` and its like: the field is read again
ReaderReturns(reader) ==
    /\ ReaderAt(reader, "return")
    /\ readers' = [readers EXCEPT ![reader] =
                      [@ EXCEPT !.pc = "done", !.val = CacheOf(readers[reader].query).value]]
    /\ UNCHANGED <<tasks, start_date, end_date, closed_tasks_cache, originally_planned_cache,
                   platform_metrics_cache, nat_date_cmp_raises, computations, ret>>

\* the caller goes on with what it got
ReaderLeaves(reader) ==
    /\ ReaderAt(reader, "done")
    /\ readers' = [readers EXCEPT ![reader] = Idle]
    /\ UNCHANGED <<tasks, start_date, end_date, closed_tasks_cache, originally_planned_cache,
                   platform_metrics_cache, nat_date_cmp_raises, computations, ret>>

\* Done items created on the start day or with a Created text no format parses
ReaderRows ==
    Rows({"Story"}, {"Done"}, {"Backend"}, {"ann"}, {NoLabels}, {Points(300)},
         {BadDateCell, DateCell(At(SprintDay(1), 23, 59, 59))},
         {DateCell(At(SprintDay(2), 12, 0, 0))})

InitReaders == Construct(TaskLists(ReaderRows), {SprintStart}, {SprintEnd}, BOOLEAN)

NextReaders ==
    \E reader \in Readers :
        \/ \E query \in CachedQueries : ReaderCalls(reader, query)
        \/ ReaderTests(reader)
        \/ ReaderComputes(reader)
        \/ ReaderReturns(reader)
        \/ ReaderLeaves(reader)

SpecReaders == InitReaders /\ [][NextReaders]_vars

\* C22: when two readers concurrently make the first call to a cached query on
\* the same aggregator, the computation runs exactly once and both readers are
\* served the same cached result.
C22_ComputeOnceServeMany ==
    /\ computations.closed <= 1
    /\ computations.planned <= 1
    /\ computations.platform <= 1
    /\ \A r1, r2 \in Readers :
           ( /\ ReaderAt(r1, "done") /\ ReaderAt(r2, "done")
             /\ readers[r1].query = readers[r2].query
             /\ readers[r1].err = "" /\ readers[r2].err = "" )
           => readers[r1].val = readers[r2].val
(***************************************************************************)
(* Properties of the label table (SpecLabels).                             *)
(***************************************************************************)
\* the items of the called platform that carry the label, in task order
CarriersOf(label) ==
    SelectSeq(PlatformTasks(tasks, ret.platform), LAMBDA i : Carries(tasks[i], label))

\* C23: in GetPlatformLabelMetrics(platform) an item of the platform contributes
\* its story points (planned, completed, originally planned, originally
\* completed) and its item count to the row of each label it carries and to no
\* other row, and items of other platforms contribute to no row: the row of a
\* label with a closed item holds the totals of the platform's items carrying it.
C23_LabelRowHoldsItsItems ==
    ( /\ ret.op = "GetPlatformLabelMetrics"
      /\ ClosedOf(CarriersOf(VibeCodable)) # <<>> )
    => /\ ret.err = ""
       /\ \E k \in 1..Len(ret.val) :
              LET row == ret.val[k]
                  items == CarriersOf(VibeCodable)
              IN  /\ row.Label = VibeCodable
                  /\ row.Total_Planned_Story_Points = round1(SumStoryPoints(tasks, items))
                  /\ row.Completed_Story_Points =
                         round1(SumStoryPoints(tasks, ClosedOf(items)))
                  /\ row.Completed_Items = Len(ClosedOf(items))
                  /\ row.First_Day_Planned_Story_Points =
                         round1(SumStoryPoints(tasks, PlannedOf(items)))
                  /\ row.First_Day_Completed_Story_Points =
                         round1(SumStoryPoints(tasks, ClosedOf(PlannedOf(items))))
(***************************************************************************)
(* Properties of the contributor breakdown (SpecBreakdown).                *)
(***************************************************************************)
\* the sum of a column of item counts
RECURSIVE SumCountColumn(_, _)
SumCountColumn(table, column) ==
    IF table = <<>> THEN 0
    ELSE SumCountColumn(SubSeq(table, 1, Len(table) - 1), column) + table[Len(table)][column]

\* C24: in GetPlatformContributorBreakdown(platform) every item of the platform
\* is counted in exactly one row, the row of its assignee or, for an empty
\* assignee, the row "Unassigned": Total_Items adds up to the number of items of
\* the platform, Completed_Items to the number of them that are closed, and
\* Completed_Items <= Total_Items in every row.
C24_EveryItemInOneRow ==
    ( ret.op = "GetPlatformContributorBreakdown" /\ ret.err = "" ) =>
        LET items == PlatformTasks(tasks, ret.platform)
            rowsOf(name) == {k \in 1..Len(ret.val) : ret.val[k].Contributor = name}
            named(name) == SelectSeq(items, LAMBDA i :
                               tasks[i].assignee = name
                                   \/ (name = "Unassigned" /\ tasks[i].assignee = ""))
        IN  /\ SumCountColumn(ret.val, "Total_Items") = Len(items)
            /\ SumCountColumn(ret.val, "Completed_Items") = Len(ClosedOf(items))
            /\ \A k \in 1..Len(ret.val) :
                   /\ ret.val[k].Completed_Items <= ret.val[k].Total_Items
                   /\ ret.val[k].Total_Items = Len(named(ret.val[k].Contributor))
                   /\ ret.val[k].Completed_Items = Len(ClosedOf(named(ret.val[k].Contributor)))
            /\ \A k \in 1..Len(items) :
                   Cardinality(rowsOf(IF tasks[items[k]].assignee = "" THEN "Unassigned"
                                      ELSE tasks[items[k]].assignee)) = 1

\* a closed unassigned item and an open item of somebody, both of the platform:
\* two rows, "Unassigned" with 1 of 1 completed and the other with 0 of 1
C24_Witness ==
    /\ ret.op = "GetPlatformContributorBreakdown" /\ Len(ret.val) = 2
    /\ Len(PlatformTasks(tasks, ret.platform)) = 2
    /\ ret.val[1].Contributor = "Unassigned"
    /\ ret.val[1].Completed_Items = 1 /\ ret.val[1].Total_Items = 1
    /\ ret.val[2].Completed_Items = 0 /\ ret.val[2].Total_Items = 1
(***************************************************************************)
(* Capacity by type: two platforms, two issue types, items of 0.25 and 3   *)
(* story points, Done or not.                                              *)
(***************************************************************************)
CapacityRows ==
    Rows({"Story", "Bug"}, {"Done", "In Progress"}, {"Backend", "Mobile"}, {"ann"},
         {NoLabels}, {Points(25), Points(300)},
         {DateCell(At(SprintDay(1), 23, 59, 59))},
         {DateCell(At(SprintDay(2), 12, 0, 0))})

InitCapacity == Construct(TaskLists(CapacityRows), {SprintStart}, {SprintEnd}, {FALSE})

NextCapacity ==
    \/ GetClosedTasks
    \/ GetTotalCompletedStoryPoints
    \/ GetCapacityByType

SpecCapacity == InitCapacity /\ [][NextCapacity]_vars

\* the sum of a column of story points
RECURSIVE SumPointsColumn(_, _)
SumPointsColumn(table, column) ==
    IF table = <<>> THEN Zero
    ELSE FAdd(SumPointsColumn(SubSeq(table, 1, Len(table) - 1), column),
              table[Len(table)][column])

\* the closed items of a (platform, issue type) pair
ClosedOfPair(pair) ==
    ClosedOf(SelectSeq(Indices(tasks),
                       LAMBDA i : <<tasks[i].platform, tasks[i].issue_type>> = pair))

\* the pairs occurring among the closed items
ClosedPairs ==
    {<<tasks[i].platform, tasks[i].issue_type>> :
        i \in {j \in 1..Len(tasks) : IsClosed(tasks[j], start_date, end_date)}}

\* exactly one row per pair occurring among the closed items and no other row
OneRowPerClosedPair(table) ==
    /\ Len(table) = Cardinality(ClosedPairs)
    /\ {<<table[k].Platform, table[k].Issue_Type>> : k \in 1..Len(table)} = ClosedPairs

\* C25 (as stated): GetCapacityByType has exactly one row per (platform, issue
\* type) pair occurring among the closed items, each row holds the sum of the
\* story points of the closed items of its pair, and the rows add up to the
\* total completed story points.
C25_RowsHoldAndAddUp ==
    ( ret.op = "GetCapacityByType" /\ ret.err = "" ) =>
        /\ OneRowPerClosedPair(ret.val)
        /\ \A k \in 1..Len(ret.val) :
               ret.val[k].Story_Points =
                   SumStoryPoints(tasks, ClosedOfPair(<<ret.val[k].Platform,
                                                        ret.val[k].Issue_Type>>))
        /\ SumPointsColumn(ret.val, "Story_Points")
               = SumStoryPoints(tasks, ClosedOf(Indices(tasks)))

\* C25 (amended): one row per pair occurring among the closed items, each row
\* holding the sum of its pair rounded to one decimal place; when every story
\* point value is a multiple of 0.5 the rows hold the sums themselves and add up
\* to the total completed story points.
C25_RowsHoldRoundedSums ==
    ( ret.op = "GetCapacityByType" /\ ret.err = "" ) =>
        /\ OneRowPerClosedPair(ret.val)
        /\ \A k \in 1..Len(ret.val) :
               ret.val[k].Story_Points =
                   round1(SumStoryPoints(tasks, ClosedOfPair(<<ret.val[k].Platform,
                                                               ret.val[k].Issue_Type>>)))
        /\ HalfPointsOnly =>
               /\ \A k \in 1..Len(ret.val) :
                      ret.val[k].Story_Points =
                          SumStoryPoints(tasks, ClosedOfPair(<<ret.val[k].Platform,
                                                               ret.val[k].Issue_Type>>))
               /\ SumPointsColumn(ret.val, "Story_Points")
                      = SumStoryPoints(tasks, ClosedOf(Indices(tasks)))

\* two closed items of one platform and different issue types: two rows of 3.0
C25_Witness ==
    /\ ret.op = "GetCapacityByType" /\ Len(ret.val) = 2
    /\ ret.val[1].Platform = ret.val[2].Platform
    /\ ret.val[1].Issue_Type # ret.val[2].Issue_Type
    /\ ret.val[1].Story_Points = Float(3, 1) /\ ret.val[2].Story_Points = Float(3, 1)
(***************************************************************************)
(* Memoisation: what each query gives as the first call on a Sprint built  *)
(* from the same tasks and dates, when no field holds a list or a table.   *)
(***************************************************************************)
FreshClosed == ClosedList(tasks, start_date, end_date)
FreshPlanned == OriginallyPlannedList(tasks, start_date)
FreshPlannedRaises ==
    \E i \in 1..Len(tasks) : IsOriginallyPlannedRaises(tasks[i], nat_date_cmp_raises)

Gives(v) == {[err |-> "", val |-> v]}
Fails(e) == {[err |-> e, val |-> 0]}
\* a value that needs the originally planned list
GivesPlanned(v) == IF FreshPlannedRaises THEN Fails("TypeError") ELSE Gives(v)

FirstCall(op, platform, label) ==
    LET closed == FreshClosed
        planned == FreshPlanned
        completed == SumStoryPoints(tasks, closed)
        platform_tasks == PlatformTasks(tasks, platform)
    IN  CASE op = "GetClosedTasks" -> Gives(closed)
          [] op = "GetOriginallyPlannedTasks" -> GivesPlanned(planned)
          [] op = "GetActivePlatforms" -> Gives(ActivePlatforms(tasks))
          [] op = "GetTotalCompletedStoryPoints" -> Gives(completed)
          [] op = "GetTotalPlannedStoryPoints" -> Gives(TotalPlannedStoryPoints(tasks))
          [] op = "GetOriginallyPlannedStoryPoints" ->
                GivesPlanned(SumStoryPoints(tasks, planned))
          [] op = "GetOriginallyCompletedStoryPoints" ->
                GivesPlanned(OriginallyCompletedStoryPoints(tasks, planned, closed))
          [] op = "GetCompletedItems" -> Gives(Len(closed))
          [] op = "GetTotalContributors" -> Gives(TotalContributors(tasks))
          [] op = "GetAverageStoryPointsPerItem" -> Gives(Average(completed, Len(closed)))
          [] op = "GetAverageCapacityPerContributor" ->
                Gives(Average(completed, FullTimeContributorsCount(tasks, closed)))
          [] op = "GetFullTimeContributorsCount" ->
                Gives(FullTimeContributorsCount(tasks, closed))
          [] op = "GetNaiveScopeDrop" ->
                Gives(ScopeDrop(TotalPlannedStoryPoints(tasks), completed))
          [] op = "GetActualScopeDrop" ->
                GivesPlanned(ScopeDrop(SumStoryPoints(tasks, planned),
                                       OriginallyCompletedStoryPoints(tasks, planned, closed)))
          [] op = "GetPlatformMetrics" -> GivesPlanned(PlatformMetrics(tasks, closed, planned))
          [] op = "GetCapacityByType" -> Gives(CapacityByType(tasks, closed))
          [] op = "GetAICapacity" ->
                IF closed # <<>> THEN Fails(LookupError("HasLabel")) ELSE Gives(round1(Zero))
          [] op = "GetPlatformLabelMetrics" ->
                IF platform_tasks = <<>> THEN Gives(<<>>)
                ELSE IF FreshPlannedRaises THEN Fails("TypeError")
                ELSE IF \E k \in 1..Len(platform_tasks) :
                            tasks[platform_tasks[k]].labels = NanLabels
                THEN Fails("TypeError")
                ELSE Fails(LookupError("HasLabel"))
          [] op = "GetPlatformLabelContributorBreakdown" ->
                IF platform_tasks = <<>> THEN Gives(<<>>) ELSE Fails(LookupError("HasLabel"))
          [] op = "GetPlatformContributorBreakdown" ->
                IF platform_tasks = <<>> THEN Gives(<<>>)
                ELSE {[err |-> "", val |-> table] :
                         table \in sort_values(ContributorData(tasks, platform_tasks, closed))}
          [] op = "GetSummary" ->
                IF FreshPlannedRaises THEN Fails("TypeError")
                ELSE IF closed # <<>> THEN Fails(LookupError("HasLabel"))
                ELSE Gives(SummaryOf(closed, planned))

\* C26: whatever queries came before, a query returns (or raises) what it would
\* as the first call on a freshly constructed Sprint over the same tasks and
\* dates.
C26_MemoisationIsTransparent ==
    ret.op # "" =>
        [err |-> ret.err, val |-> ret.val] \in FirstCall(ret.op, ret.platform, ret.label)

\* the platform table was built by an earlier query, so both lists were kept
\* then, and a later query over both lists returns completed planned points
C26_Witness ==
    /\ ret.op = "GetOriginallyCompletedStoryPoints" /\ ret.err = ""
    /\ platform_metrics_cache.set
    /\ FLt(Zero, ret.val)
    /\ FreshClosed # FreshPlanned
(***************************************************************************)
(* The kept lists.                                                         *)
(***************************************************************************)
\* items of the sprint in their original order, none twice
InOriginalOrder(list) ==
    /\ \A k \in 1..Len(list) : list[k] \in 1..Len(tasks)
    /\ \A j, k \in 1..Len(list) : j < k => list[j] < list[k]

Members(list) == {list[k] : k \in 1..Len(list)}

\* C27: the closed field is unset or holds, in original order and without
\* duplicates or foreign items, exactly the items for which IsClosed(start, end)
\* is true; the planned field likewise with IsOriginallyPlanned(start).
C27_KeptListsAreTheFilteredItems ==
    /\ closed_tasks_cache.set =>
          /\ InOriginalOrder(closed_tasks_cache.value)
          /\ Members(closed_tasks_cache.value) =
                 {i \in 1..Len(tasks) : IsClosed(tasks[i], start_date, end_date)}
    /\ originally_planned_cache.set =>
          /\ InOriginalOrder(originally_planned_cache.value)
          /\ Members(originally_planned_cache.value) =
                 {i \in 1..Len(tasks) : IsOriginallyPlanned(tasks[i], start_date)}

\* both lists are kept, neither is empty, and they hold different items
C27_Witness ==
    /\ closed_tasks_cache.set /\ originally_planned_cache.set
    /\ closed_tasks_cache.value # <<>> /\ originally_planned_cache.value # <<>>
    /\ closed_tasks_cache.value # originally_planned_cache.value
    /\ Len(closed_tasks_cache.value) < Len(tasks)
(***************************************************************************)
(* What a query may change.                                                *)
(***************************************************************************)
\* the change GetClosedTasks makes on a miss, GetOriginallyPlannedTasks likewise
ClosedListKept ==
    ~closed_tasks_cache.set /\ closed_tasks_cache' = Cached(FreshClosed)
PlannedListKept ==
    ~originally_planned_cache.set /\ originally_planned_cache' = Cached(FreshPlanned)

QueryFrame ==
    /\ tasks' = tasks
    /\ start_date' = start_date
    /\ end_date' = end_date
    /\ closed_tasks_cache' # closed_tasks_cache => ClosedListKept
    /\ originally_planned_cache' # originally_planned_cache => PlannedListKept
    /\ platform_metrics_cache' # platform_metrics_cache =>
          /\ ret'.op = "GetPlatformMetrics"
          /\ ~platform_metrics_cache.set

\* C28: no query changes the tasks, a field of a task or the two dates; a query
\* changes at most the three cache fields, the two lists only by the assignment
\* their getters make, and the table only in GetPlatformMetrics.
C28_QueriesChangeOnlyTheCaches == [][QueryFrame]_vars

\* GetPlatformLabelMetrics went through both getters: both lists are kept, no
\* table is
C28_Witness ==
    /\ ret.op = "GetPlatformLabelMetrics"
    /\ closed_tasks_cache.set /\ originally_planned_cache.set
    /\ ~platform_metrics_cache.set
    /\ closed_tasks_cache.value # <<>>
(***************************************************************************)
(* The range of the scope drops.                                           *)
(***************************************************************************)
NoNegativeStoryPoints == \A i \in 1..Len(tasks) : FLe(Zero, tasks[i].story_points)

Percentage(x) == FLe(Zero, x) /\ FLe(x, Hundred)

\* C29: when no task has negative story points, GetNaiveScopeDrop and
\* GetActualScopeDrop return a value from 0 to 100, and so do the
\* Naive_Scope_Drop and Actual_Scope_Drop of every row of GetPlatformMetrics.
C29_ScopeDropsArePercentages ==
    ( NoNegativeStoryPoints /\ ret.err = "" ) =>
        /\ ret.op \in {"GetNaiveScopeDrop", "GetActualScopeDrop"} => Percentage(ret.val)
        /\ ret.op = "GetPlatformMetrics" =>
              \A k \in 1..Len(ret.val) :
                  /\ Percentage(ret.val[k].Naive_Scope_Drop)
                  /\ Percentage(ret.val[k].Actual_Scope_Drop)

\* two tasks planned on the first day, 1 and 5 points, one of them closed: a
\* drop strictly between the two ends, and work closed that was not planned
C29_Witness ==
    /\ NoNegativeStoryPoints
    /\ ret.op = "GetActualScopeDrop" /\ ret.err = ""
    /\ FLt(Zero, ret.val) /\ FLt(ret.val, Hundred)
(***************************************************************************)
(* The 'No Label' row of the label table (SpecLabels).                     *)
(***************************************************************************)
\* the items of the called platform whose Labels cell is empty
UnlabelledOfPlatform ==
    SelectSeq(PlatformTasks(tasks, ret.platform), LAMBDA i : tasks[i].labels = NoLabels)

NoLabelRows(table) == SelectSeq(table, LAMBDA row : row.Label = "No Label")

\* C30: GetPlatformLabelMetrics(platform) keeps a 'No Label' row exactly when an
\* unlabelled item of the platform is closed (its completed points or completed
\* item count is positive), and that row reports Contributors = 0 and
\* Avg_Capacity_Per_Contributor = 0.
C30_NoLabelRowHasNoContributors ==
    ret.op = "GetPlatformLabelMetrics" =>
        /\ ret.err = ""
        /\ LET rows == NoLabelRows(ret.val)
           IN  /\ Len(rows) = IF ClosedOf(UnlabelledOfPlatform) # <<>> THEN 1 ELSE 0
               /\ \A k \in 1..Len(rows) :
                      /\ rows[k].Contributors = 0
                      /\ rows[k].Avg_Capacity_Per_Contributor = Zero
====
